---------------------------- MODULE Spec2Model ----------------------------
(* A model of app_v5_stav_adjustments.py: the Streamlit script that polls  *)
(* a Databricks warehouse with four SQL queries, shapes the results with   *)
(* pandas and redraws four panels every ten seconds.                       *)
(*                                                                         *)
(* Time stamps are epoch seconds.  from_unixtime() is modelled as the      *)
(* conversion to a broken-down "yyyy-MM-dd HH:mm:ss" value in a session    *)
(* time zone without daylight saving (UTC); SQL NULL / pandas NaN is the   *)
(* empty tuple and a present value v is the one-element tuple <<v>>.       *)
EXTENDS Integers, Sequences, FiniteSets, TLC

VARIABLES
    pc,                         \* position of the script
    env,                        \* os.getenv('DATABRICKS_WAREHOUSE_ID')
    current_date,               \* CURRENT_DATE() of the warehouse, a day number
    table,                      \* unique_messages_v2 as a bag: message -> copies
    conn,                       \* connections currently open
    cursors,                    \* cursors currently open
    q,                          \* index of the query update_dashboard is at
    panel,                      \* index of the panel update_dashboard is at
    counter,                    \* the loop's counter
    err,                        \* the exception that ended the script, if any
    calls,                      \* presentation-surface calls made before the loop
    events,                     \* what the current refresh cycle did, in order
    keys,                       \* every chart key handed to st.plotly_chart
    rows,                       \* what the open cursor holds after execute()
    data_total,                 \* the four dataframes of update_dashboard
    total_messages,
    data_line_chart,
    data_sentiment_chart,
    data_sentiment_line_chart,
    fig_shapes,                 \* x0 of the shapes added to the line figure
    progress_data               \* the progress dataframe

vars == <<pc, env, current_date, table, conn, cursors, q, panel, counter, err,
          calls, events, keys, rows, data_total, total_messages,
          data_line_chart, data_sentiment_chart, data_sentiment_line_chart,
          fig_shapes, progress_data>>

(***************************************************************************)
(* Bounds of the model                                                     *)
(***************************************************************************)
MaxCycles == 2          \* refresh cycles the loop is followed for
MaxPerInstant == 1      \* copies of one sample message in a time-series table
MaxPerKind == 1         \* copies of one sample message in a sentiment table
MaxNear == 40           \* totals are sampled this close to 0 and to the goal

(***************************************************************************)
(* Values                                                                  *)
(***************************************************************************)
Null == <<>>
Some(v) == <<v>>
IsNull(x) == x = Null
Val(x) == x[1]

SecondsPerDay == 86400
SecondsPerHour == 3600
SecondsPerMinute == 60

Days == {19000, 19001}

Min(a, b) == IF a < b THEN a ELSE b
Max(a, b) == IF a > b THEN a ELSE b

RECURSIVE SumOver(_, _)
SumOver(S, f) ==
    IF S = {} THEN 0
    ELSE LET x == CHOOSE y \in S : TRUE IN f[x] + SumOver(S \ {x}, f)

RECURSIVE SetToSeq(_)
SetToSeq(S) ==
    IF S = {} THEN <<>>
    ELSE LET x == CHOOSE y \in S : TRUE IN <<x>> \o SetToSeq(S \ {x})

(* The concatenation of ss[lo], ..., ss[hi], by halving.                    *)
RECURSIVE FlattenRange(_, _, _)
FlattenRange(ss, lo, hi) ==
    IF lo > hi THEN <<>>
    ELSE IF lo = hi THEN ss[lo]
    ELSE LET mid == (lo + hi) \div 2
         IN  FlattenRange(ss, lo, mid) \o FlattenRange(ss, mid + 1, hi)

Flatten(ss) == FlattenRange(ss, 1, Len(ss))

Range(s) == {s[i] : i \in DOMAIN s}

(* from_unixtime(t): the broken-down time stamp the warehouse formats.      *)
from_unixtime(t) ==
    [date |-> t \div SecondsPerDay,
     hh   |-> (t % SecondsPerDay) \div SecondsPerHour,
     mi   |-> (t % SecondsPerHour) \div SecondsPerMinute,
     ss   |-> t % SecondsPerMinute]

(* The order of two formatted time stamps (string order of the digits).    *)
TsLess(a, b) ==
    \/ a.date < b.date
    \/ a.date = b.date /\ a.hh < b.hh
    \/ a.date = b.date /\ a.hh = b.hh /\ a.mi < b.mi
    \/ a.date = b.date /\ a.hh = b.hh /\ a.mi = b.mi /\ a.ss < b.ss

(* UNIX_TIMESTAMP(CURRENT_DATE): midnight of the day.                       *)
unix_timestamp_of_date(d) == d * SecondsPerDay

(* DATE(written_date)                                                       *)
DATE(ts) == ts \div SecondsPerDay

(* pd.to_datetime of a formatted time stamp.                                *)
to_datetime(s) ==
    s.date * SecondsPerDay + s.hh * SecondsPerHour + s.mi * SecondsPerMinute + s.ss

(* Series.dt.strftime("%Y-%m-%d %H:%M"): the seconds are not printed.       *)
strftime_minutes(t) ==
    [date |-> t \div SecondsPerDay,
     hh   |-> (t % SecondsPerDay) \div SecondsPerHour,
     mi   |-> (t % SecondsPerHour) \div SecondsPerMinute]

(***************************************************************************)
(* The table.  A message has written_at (epoch seconds), written_date      *)
(* (epoch seconds) and a nullable sentiment; a table maps the messages it  *)
(* holds to their number of copies.                                        *)
(***************************************************************************)
Msg(at, wd, s) == [written_at |-> at, written_date |-> wd, sentiment |-> s]

EmptyTable == [m \in {} |-> 0]

(* WHERE DATE(written_date) = CURRENT_DATE()                                *)
TodayFilter(t, today) == {m \in DOMAIN t : DATE(m.written_date) = today}

(***************************************************************************)
(* query_total_messages                                                    *)
(***************************************************************************)
QueryTotalMessages(t, today) ==
    <<[total_messages |-> SumOver(TodayFilter(t, today), t)]>>

(***************************************************************************)
(* query_line_chart                                                        *)
(***************************************************************************)
BinSeconds == 300
LastBinId == 287

(* time_bins: EXPLODE(SEQUENCE(0, 287)), one time stamp per id.             *)
(* Variant: SEQUENCE(0, 286), one id short.                                *)
TimeBinsShort(today) ==
    [i \in 1..LastBinId |->
        from_unixtime(unix_timestamp_of_date(today) + (i - 1) * BinSeconds)]
TimeBins(today) ==
    [i \in 1..(LastBinId + 1) |->
        from_unixtime(unix_timestamp_of_date(today) + (i - 1) * BinSeconds)]

(* from_unixtime(floor(unix_timestamp(written_at) / 300) * 300)             *)
BinOf(m) == from_unixtime((m.written_at \div BinSeconds) * BinSeconds)

(* ranked_bins: one row per bin that holds a message of today, with its    *)
(* count and its ROW_NUMBER() in descending order of time.                 *)
RankedBins(t, today) ==
    LET msgs == TodayFilter(t, today)
        bins == {BinOf(m) : m \in msgs}
    IN  {[time_bin |-> b,
          cnt      |-> SumOver({m \in msgs : BinOf(m) = b}, t),
          rank     |-> 1 + Cardinality({c \in bins : TsLess(b, c)})] : b \in bins}

(* filtered_bins: WHERE rank > 1, latest_status set on rank 2 only.         *)
(* Variant: latest_status set on every kept rank.                          *)
FilteredBinsFlagEvery(t, today) ==
    {[time_bin      |-> r.time_bin,
      cnt           |-> r.cnt,
      latest_status |-> IF r.rank >= 2 THEN Some(r.cnt) ELSE Null] :
        r \in {x \in RankedBins(t, today) : x.rank > 1}}
(* Variant: without WHERE rank > 1.                                        *)
FilteredBinsKeepFirst(t, today) ==
    {[time_bin      |-> r.time_bin,
      cnt           |-> r.cnt,
      latest_status |-> IF r.rank = 2 THEN Some(r.cnt) ELSE Null] :
        r \in RankedBins(t, today)}
FilteredBins(t, today) ==
    {[time_bin      |-> r.time_bin,
      cnt           |-> r.cnt,
      latest_status |-> IF r.rank = 2 THEN Some(r.cnt) ELSE Null] :
        r \in {x \in RankedBins(t, today) : x.rank > 1}}

(* time_bins LEFT JOIN filtered_bins ON time_bin ORDER BY tb.time_bin       *)
QueryLineChart(t, today) ==
    LET tbs == TimeBins(today)
        fbs == FilteredBins(t, today)
        joined(tb) ==
            LET ms == {fb \in fbs : fb.time_bin = tb}
            IN  IF ms = {}
                THEN <<[time_bin |-> tb, cnt |-> Null, latest_bin |-> Null]>>
                ELSE SetToSeq({[time_bin   |-> tb,
                                cnt        |-> Some(fb.cnt),
                                latest_bin |-> fb.latest_status] : fb \in ms})
    IN  SortSeq(Flatten([i \in DOMAIN tbs |-> joined(tbs[i])]),
                LAMBDA a, b : TsLess(a.time_bin, b.time_bin))

(* update_dashboard, lines 188-189: parse time_bin, add time_bin_formatted. *)
ShapeLineChart(df) ==
    [i \in DOMAIN df |->
        LET ts == to_datetime(df[i].time_bin)
        IN  [time_bin           |-> ts,
             time_bin_formatted |-> strftime_minutes(ts),
             cnt                |-> df[i].cnt,
             latest_bin         |-> df[i].latest_bin]]

(* update_dashboard, lines 208-217: one shape per row with a latest_bin.    *)
LineShapes(df) ==
    LET flagged == {i \in DOMAIN df : ~IsNull(df[i].latest_bin)}
    IN  [i \in 1..Cardinality(flagged) |->
            LET k == CHOOSE j \in flagged :
                        Cardinality({l \in flagged : l < j}) = i - 1
            IN  df[k].time_bin_formatted]


(***************************************************************************)
(* query_sentiment_chart and query_sentiment_line_chart                    *)
(***************************************************************************)
TopN == 5

(* The labels in string order, which ORDER BY sentiment uses.               *)
Sentiments == <<"anger", "fear", "joy", "neutral", "sadness", "surprise">>
LabelIndex(s) ==
    IF IsNull(s) THEN 0 ELSE CHOOSE i \in DOMAIN Sentiments : Sentiments[i] = Val(s)

(* WHERE ... AND sentiment IS NOT NULL                                      *)
NotNullFilter(msgs) == {m \in msgs : ~IsNull(m.sentiment)}

(* ORDER BY <key> DESC LIMIT n over a set of rows, key a function on the    *)
(* rows: SQL leaves the choice among rows of equal key open, so every       *)
(* admissible choice is returned.                                           *)
(* Variant: without LIMIT.                                                 *)
LimitChoicesNoLimit(groups, key, n) == {groups}
LimitChoices(groups, key, n) ==
    {S \in SUBSET groups :
        /\ Cardinality(S) = Min(n, Cardinality(groups))
        /\ \A x \in S, y \in groups \ S : key[x] >= key[y]}

(* Every arrangement of the rows in descending order of cnt.                *)
RECURSIVE DescOrders(_)
DescOrders(S) ==
    IF S = {} THEN {<<>>}
    ELSE UNION {{<<x>> \o r : r \in DescOrders(S \ {x})} :
                    x \in {y \in S : \A z \in S : y.cnt >= z.cnt}}

(* GROUP BY sentiment with its row count, today's non-null sentiments.      *)
SentimentCounts(t, today) ==
    LET msgs == NotNullFilter(TodayFilter(t, today))
        labels == {m.sentiment : m \in msgs}
    IN  {[sentiment |-> l,
          cnt |-> SumOver({m \in msgs : m.sentiment = l}, t)] : l \in labels}

(* query_sentiment_chart: the results the warehouse may return.             *)
QuerySentimentChart(t, today) ==
    UNION {DescOrders(S) :
             S \in LimitChoices(SentimentCounts(t, today),
                               [g \in SentimentCounts(t, today) |-> g.cnt], TopN)}

(* .sort_values(by="cnt", ascending=False): descending by cnt; rows of      *)
(* equal cnt keep the order they came in (frames of a few rows are sorted  *)
(* by insertion).                                                          *)
RECURSIVE SortValuesDesc(_)
SortValuesDesc(df) ==
    IF df = <<>> THEN <<>>
    ELSE LET x    == df[Len(df)]
             done == SortValuesDesc(SubSeq(df, 1, Len(df) - 1))
             k    == Cardinality({i \in DOMAIN done : done[i].cnt >= x.cnt})
         IN  SubSeq(done, 1, k) \o <<x>> \o SubSeq(done, k + 1, Len(done))

(* AggregatedMessages: GROUP BY written_date, sentiment.                    *)
AggregatedMessages(t, today) ==
    LET msgs == NotNullFilter(TodayFilter(t, today))
        grps == {<<m.written_date, m.sentiment>> : m \in msgs}
    IN  {[written_date |-> g[1],
          sentiment    |-> g[2],
          cnt |-> SumOver({m \in msgs : /\ m.written_date = g[1]
                                        /\ m.sentiment = g[2]}, t)] :
            g \in grps}

(* SentimentTotals: SUM(cnt) per sentiment, ORDER BY total DESC LIMIT 5.    *)
SentimentTotals(am) ==
    LET labels == {r.sentiment : r \in am}
        totals == {[sentiment   |-> l,
                    total_count |-> SumOver({r \in am : r.sentiment = l},
                                            [r \in am |-> r.cnt])] : l \in labels}
    IN  LimitChoices(totals, [g \in totals |-> g.total_count], TopN)

(* RankedMessages filtered by rank > 1: RANK() per sentiment by             *)
(* written_date DESC, so the latest written_date of a sentiment is dropped. *)
RankAbove1(fm) ==
    {r \in fm :
        1 + Cardinality({o \in fm : /\ o.sentiment = r.sentiment
                                    /\ o.written_date > r.written_date}) > 1}

(* ORDER BY written_date ASC, sentiment                                     *)
TrendOrder(a, b) ==
    \/ a.written_date < b.written_date
    \/ /\ a.written_date = b.written_date
       /\ LabelIndex(a.sentiment) < LabelIndex(b.sentiment)

(* query_sentiment_line_chart: the results the warehouse may return.        *)
QuerySentimentLineChart(t, today) ==
    LET am == AggregatedMessages(t, today)
    IN  {SortSeq(SetToSeq({[written_date |-> from_unixtime(r.written_date),
                            sentiment    |-> r.sentiment,
                            cnt          |-> r.cnt] :
                              r \in RankAbove1({x \in am :
                                      x.sentiment \in {s.sentiment : s \in st}})}),
                 LAMBDA a, b : TrendOrder([written_date |-> to_datetime(a.written_date),
                                           sentiment |-> a.sentiment],
                                          [written_date |-> to_datetime(b.written_date),
                                           sentiment |-> b.sentiment])) :
            st \in SentimentTotals(am)}

(* update_dashboard, line 194: parse written_date.                          *)
ShapeTrend(df) ==
    [i \in DOMAIN df |-> [written_date |-> to_datetime(df[i].written_date),
                          sentiment    |-> df[i].sentiment,
                          cnt          |-> df[i].cnt]]

(***************************************************************************)
(* The total and the progress bar                                          *)
(***************************************************************************)
goal_messages == 1100000

(* update_dashboard, line 185                                               *)
ExtractTotal(df) == IF df # <<>> THEN df[1].total_messages ELSE 0

(* update_dashboard, line 267                                               *)
(* Variant: without max(..., 0).                                           *)
RemainingUnclamped(total) == goal_messages - total
RemainingMessages(total) == Max(goal_messages - total, 0)

(* Count / goal_messages * 100, kept exact as numerator and denominator.    *)
Percentage(count) == [num |-> count * 100, den |-> goal_messages]

(* update_dashboard, lines 265-274                                          *)
ProgressData(total) ==
    <<[Category   |-> "Messages So Far",
       Count      |-> total,
       Percentage |-> Percentage(total)],
      [Category   |-> "Remaining",
       Count      |-> RemainingMessages(total),
       Percentage |-> Percentage(RemainingMessages(total))]>>

(***************************************************************************)
(* Inputs                                                                  *)
(***************************************************************************)
(* The bag that holds f[m] copies of every message m with f[m] > 0.         *)
BagOf(f) == [m \in {x \in DOMAIN f : f[x] > 0} |-> f[m]]

Midnight(today) == today * SecondsPerDay

(* Sample messages for the time series: two in the first bin, one in each   *)
(* of the second, third and last bin of today, one of yesterday.            *)
TSSamples(today) ==
    {Msg(Midnight(today) + o, Midnight(today), Some("joy")) :
        o \in {0, 299, 300, 899, 86399}}
    \cup {Msg(Midnight(today) - 1, Midnight(today - 1), Some("joy"))}

TSTables(today) == {BagOf(f) : f \in [TSSamples(today) -> 0..MaxPerInstant]}

(* Sample messages for the sentiment queries: six labels and NULL, one      *)
(* label with two values of written_date within today.                      *)
SentSamples(today) ==
    {Msg(Midnight(today), Midnight(today), Some(Sentiments[i])) :
        i \in DOMAIN Sentiments}
    \cup {Msg(Midnight(today), Midnight(today), Null),
          Msg(Midnight(today) + SecondsPerHour, Midnight(today) + SecondsPerHour,
              Some("anger"))}

SentTables(today) == {BagOf(f) : f \in [SentSamples(today) -> 0..MaxPerKind]}

(* Results of query_total_messages the shaping step is given.               *)
TotalSamples ==
    (0..MaxNear) \cup {goal_messages \div 2}
    \cup ((goal_messages - MaxNear)..(goal_messages + MaxNear))

TotalResults == {<<>>} \cup {<<[total_messages |-> n]>> : n \in TotalSamples}

(* Tables the warehouse holds while the loop runs.                          *)
LoopTables(today) ==
    {EmptyTable,
     BagOf([m \in {Msg(Midnight(today) + 60, Midnight(today), Some("joy"))} |-> 1]),
     BagOf([m \in {Msg(Midnight(today) + 60, Midnight(today), Some("joy")),
                   Msg(Midnight(today) + 400, Midnight(today), Some("fear")),
                   Msg(Midnight(today) + 4000, Midnight(today) + SecondsPerHour,
                       Some("joy")),
                   Msg(Midnight(today) - 60, Midnight(today - 1), Null)} |->
                IF IsNull(m.sentiment) THEN 1 ELSE LabelIndex(m.sentiment)])}

(* os.getenv('DATABRICKS_WAREHOUSE_ID'): None, the empty string or an id.   *)
EnvValues == {Null, Some(""), Some("warehouse")}

(***************************************************************************)
(* The script                                                              *)
(***************************************************************************)
NumQueries == 4
NumPanels == 4

Refreshing == pc \in {"connect", "execute", "fetch", "render", "increment"}
Sleeping == pc = "sleep"

NoData ==
    /\ rows = <<>>
    /\ data_total = <<>>
    /\ total_messages = 0
    /\ data_line_chart = <<>>
    /\ data_sentiment_chart = <<>>
    /\ data_sentiment_line_chart = <<>>
    /\ fig_shapes = <<>>
    /\ progress_data = <<>>

NoProgram ==
    /\ conn = 0
    /\ cursors = 0
    /\ q = 1
    /\ panel = 1
    /\ counter = 0
    /\ err = "none"
    /\ calls = <<>>
    /\ events = <<>>
    /\ keys = <<>>

Init ==
    /\ pc = "set_page_config"
    /\ env \in EnvValues
    /\ current_date \in Days
    /\ table = EmptyTable
    /\ NoProgram
    /\ NoData

dataVars == <<rows, data_total, total_messages, data_line_chart,
              data_sentiment_chart, data_sentiment_line_chart, fig_shapes,
              progress_data>>
worldVars == <<env, current_date>>

(* line 11: st.set_page_config                                              *)
SetPageConfig ==
    /\ pc = "set_page_config"
    /\ calls' = Append(calls, "set_page_config")
    /\ pc' = "assert"
    /\ UNCHANGED <<worldVars, table, conn, cursors, q, panel, counter, err,
                   events, keys, dataVars>>

(* Python's truth value of os.getenv(...): None and "" are false.           *)
(* Variant: a test for None only.                                          *)
TruthyNotNone(v) == ~IsNull(v)
Truthy(v) == ~IsNull(v) /\ Val(v) # ""

(* line 14: assert os.getenv('DATABRICKS_WAREHOUSE_ID')                     *)
AssertEnv ==
    /\ pc = "assert"
    /\ IF Truthy(env)
       THEN pc' = "markdown" /\ err' = err
       ELSE pc' = "terminated" /\ err' = "AssertionError"
    /\ UNCHANGED <<worldVars, table, conn, cursors, q, panel, counter, calls,
                   events, keys, dataVars>>

(* lines 17-30: the style sheet and the title                               *)
StartupMarkdown ==
    /\ pc = "markdown"
    /\ calls' = calls \o <<"markdown", "markdown">>
    /\ pc' = "layout"
    /\ UNCHANGED <<worldVars, table, conn, cursors, q, panel, counter, err,
                   events, keys, dataVars>>

(* lines 173-180 and 334: the columns, the placeholders, counter = 0        *)
CreateLayout ==
    /\ pc = "layout"
    /\ calls' = calls \o <<"columns", "columns", "empty", "empty", "empty", "empty">>
    /\ counter' = 0
    /\ q' = 1
    /\ events' = <<>>
    /\ pc' = "connect"
    /\ UNCHANGED <<worldVars, table, conn, cursors, panel, err, keys, dataVars>>

(* cached_sql_query, lines 35-40: Config() and sql.connect succeed.         *)
ConnectOk ==
    /\ pc = "connect"
    /\ conn' = conn + 1
    /\ pc' = "execute"
    /\ UNCHANGED <<worldVars, table, cursors, q, panel, counter, err, calls,
                   events, keys, dataVars>>

(* cached_sql_query, lines 35-40: Config() or sql.connect raises; nothing   *)
(* catches it, so the script ends.                                          *)
ConnectFails ==
    /\ pc = "connect"
    /\ err' = "ConnectionError"
    /\ pc' = "terminated"
    /\ UNCHANGED <<worldVars, table, conn, cursors, q, panel, counter, calls,
                   events, keys, dataVars>>

(* What the warehouse may answer to query number i over table t.            *)
QueryResults(i, t, today) ==
    CASE i = 1 -> {QueryTotalMessages(t, today)}
      [] i = 2 -> {QueryLineChart(t, today)}
      [] i = 3 -> QuerySentimentChart(t, today)
      [] i = 4 -> QuerySentimentLineChart(t, today)

(* cached_sql_query, lines 41-42: the cursor opens and execute succeeds.    *)
ExecuteOk ==
    /\ pc = "execute"
    /\ \E t \in LoopTables(current_date) :
          /\ table' = t
          /\ rows' \in QueryResults(q, t, current_date)
    /\ cursors' = cursors + 1
    /\ pc' = "fetch"
    /\ UNCHANGED <<worldVars, conn, q, panel, counter, err, calls, events, keys,
                   data_total, total_messages, data_line_chart,
                   data_sentiment_chart, data_sentiment_line_chart, fig_shapes,
                   progress_data>>

(* cached_sql_query, lines 40-42: execute raises; the two with blocks close *)
(* the cursor and the connection, and the exception ends the script.        *)
(* Variant: without the with blocks, nothing is closed.                    *)
ExecuteFailsLeak ==
    /\ pc = "execute"
    /\ err' = "QueryError"
    /\ pc' = "terminated"
    /\ UNCHANGED <<worldVars, table, conn, cursors, q, panel, counter, calls,
                   events, keys, dataVars>>
ExecuteFails ==
    /\ pc = "execute"
    /\ err' = "QueryError"
    /\ cursors' = 0
    /\ conn' = conn - 1
    /\ pc' = "terminated"
    /\ UNCHANGED <<worldVars, table, q, panel, counter, calls, events, keys,
                   dataVars>>

(* cached_sql_query, line 43, the exits of the with blocks, and the shaping *)
(* of the result in update_dashboard, lines 184-194.                        *)
FetchAndShape ==
    /\ pc = "fetch"
    /\ cursors' = cursors - 1
    /\ conn' = conn - 1
    /\ rows' = <<>>
    /\ events' = Append(events, <<"query", q>>)
    /\ CASE q = 1 ->
              /\ data_total' = rows
              /\ total_messages' = ExtractTotal(rows)
              /\ UNCHANGED <<data_line_chart, data_sentiment_chart,
                             data_sentiment_line_chart>>
         [] q = 2 ->
              /\ data_line_chart' = ShapeLineChart(rows)
              /\ UNCHANGED <<data_total, total_messages, data_sentiment_chart,
                             data_sentiment_line_chart>>
         [] q = 3 ->
              /\ data_sentiment_chart' = SortValuesDesc(rows)
              /\ UNCHANGED <<data_total, total_messages, data_line_chart,
                             data_sentiment_line_chart>>
         [] q = 4 ->
              /\ data_sentiment_line_chart' = ShapeTrend(rows)
              /\ UNCHANGED <<data_total, total_messages, data_line_chart,
                             data_sentiment_chart>>
    /\ IF q < NumQueries
       THEN q' = q + 1 /\ pc' = "connect" /\ panel' = panel
       ELSE q' = q /\ pc' = "render" /\ panel' = 1
    /\ UNCHANGED <<worldVars, table, counter, err, calls, keys, fig_shapes,
                   progress_data>>

(* The chart key of a panel: panel 2 is markup only.                        *)
PanelKeys(p, c) ==
    CASE p = 1 -> <<<<"line_chart", c>>>>
      [] p = 2 -> <<>>
      [] p = 3 -> <<<<"bar_chart", c>>>>
      [] p = 4 -> <<<<"stacked_bar", c>>>>

(* update_dashboard, lines 196-331: one placeholder is redrawn.             *)
Render ==
    /\ pc = "render"
    /\ keys' = keys \o PanelKeys(panel, counter)
    /\ events' = Append(events, <<"draw", panel>>)
    /\ fig_shapes' = IF panel = 1 THEN LineShapes(data_line_chart) ELSE fig_shapes
    /\ progress_data' =
          IF panel = NumPanels THEN ProgressData(total_messages) ELSE progress_data
    /\ IF panel < NumPanels
       THEN panel' = panel + 1 /\ pc' = "render"
       ELSE panel' = panel /\ pc' = "increment"
    /\ UNCHANGED <<worldVars, table, conn, cursors, q, counter, err, calls, rows,
                   data_total, total_messages, data_line_chart,
                   data_sentiment_chart, data_sentiment_line_chart>>

(* line 337: counter += 1, then time.sleep(10) is entered.                  *)
(* Variant: the counter is left as it is.                                  *)
NextCounterSame(c) == c
NextCounter(c) == c + 1

Increment ==
    /\ pc = "increment"
    /\ counter' = NextCounter(counter)
    /\ events' = Append(events, <<"incr", counter>>)
    /\ pc' = "sleep"
    /\ UNCHANGED <<worldVars, table, conn, cursors, q, panel, err, calls, keys,
                   dataVars>>

(* line 338 and 335: time.sleep(10) returns and the loop starts over.       *)
Wake ==
    /\ pc = "sleep"
    /\ counter < MaxCycles
    /\ q' = 1
    /\ events' = <<>>
    /\ pc' = "connect"
    /\ UNCHANGED <<worldVars, table, conn, cursors, panel, counter, err, calls,
                   keys, dataVars>>

Next ==
    \/ SetPageConfig
    \/ AssertEnv
    \/ StartupMarkdown
    \/ CreateLayout
    \/ ConnectOk
    \/ ConnectFails
    \/ ExecuteOk
    \/ ExecuteFails
    \/ FetchAndShape
    \/ Render
    \/ Increment
    \/ Wake

Spec == Init /\ [][Next]_vars

(***************************************************************************)
(* The time-series query, its shaping and its markers, applied to every    *)
(* sample table.                                                           *)
(***************************************************************************)
InitTS ==
    /\ pc = "ts_query"
    /\ env = Some("warehouse")
    /\ current_date \in Days
    /\ table \in TSTables(current_date)
    /\ NoProgram
    /\ NoData

progVars == <<conn, cursors, q, panel, counter, err, calls, events, keys>>

TSQuery ==
    /\ pc = "ts_query"
    /\ rows' = QueryLineChart(table, current_date)
    /\ pc' = "ts_shape"
    /\ UNCHANGED <<worldVars, table, progVars, data_total, total_messages,
                   data_line_chart, data_sentiment_chart,
                   data_sentiment_line_chart, fig_shapes, progress_data>>

TSShape ==
    /\ pc = "ts_shape"
    /\ data_line_chart' = ShapeLineChart(rows)
    /\ pc' = "ts_render"
    /\ UNCHANGED <<worldVars, table, progVars, rows, data_total, total_messages,
                   data_sentiment_chart, data_sentiment_line_chart, fig_shapes,
                   progress_data>>

TSRender ==
    /\ pc = "ts_render"
    /\ fig_shapes' = LineShapes(data_line_chart)
    /\ pc' = "ts_done"
    /\ UNCHANGED <<worldVars, table, progVars, rows, data_total, total_messages,
                   data_line_chart, data_sentiment_chart,
                   data_sentiment_line_chart, progress_data>>

NextTS == TSQuery \/ TSShape \/ TSRender

SpecTS == InitTS /\ [][NextTS]_vars

(***************************************************************************)
(* The two sentiment queries and their shaping, applied to every sample    *)
(* table.                                                                  *)
(***************************************************************************)
InitSent ==
    /\ pc = "sent_input"
    /\ env = Some("warehouse")
    /\ current_date \in Days
    /\ table \in SentTables(current_date)
    /\ NoProgram
    /\ NoData

BarQuery ==
    /\ pc = "sent_input"
    /\ rows' \in QuerySentimentChart(table, current_date)
    /\ pc' = "bar_shape"
    /\ UNCHANGED <<worldVars, table, progVars, data_total, total_messages,
                   data_line_chart, data_sentiment_chart,
                   data_sentiment_line_chart, fig_shapes, progress_data>>

BarShape ==
    /\ pc = "bar_shape"
    /\ data_sentiment_chart' = SortValuesDesc(rows)
    /\ rows' = <<>>
    /\ pc' = "bar_done"
    /\ UNCHANGED <<worldVars, table, progVars, data_total, total_messages,
                   data_line_chart, data_sentiment_line_chart, fig_shapes,
                   progress_data>>

TrendQuery ==
    /\ pc = "sent_input"
    /\ rows' \in QuerySentimentLineChart(table, current_date)
    /\ pc' = "trend_shape"
    /\ UNCHANGED <<worldVars, table, progVars, data_total, total_messages,
                   data_line_chart, data_sentiment_chart,
                   data_sentiment_line_chart, fig_shapes, progress_data>>

TrendShape ==
    /\ pc = "trend_shape"
    /\ data_sentiment_line_chart' = ShapeTrend(rows)
    /\ rows' = <<>>
    /\ pc' = "trend_done"
    /\ UNCHANGED <<worldVars, table, progVars, data_total, total_messages,
                   data_line_chart, data_sentiment_chart, fig_shapes,
                   progress_data>>

NextSent == BarQuery \/ BarShape \/ TrendQuery \/ TrendShape

SpecSent == InitSent /\ [][NextSent]_vars

(***************************************************************************)
(* The total and the progress computation, applied to every sample result  *)
(* of query_total_messages.                                                *)
(***************************************************************************)
InitProgress ==
    /\ pc = "total_input"
    /\ env = Some("warehouse")
    /\ current_date \in Days
    /\ table = EmptyTable
    /\ NoProgram
    /\ rows = <<>>
    /\ data_total \in TotalResults
    /\ total_messages = 0
    /\ data_line_chart = <<>>
    /\ data_sentiment_chart = <<>>
    /\ data_sentiment_line_chart = <<>>
    /\ fig_shapes = <<>>
    /\ progress_data = <<>>

TotalStep ==
    /\ pc = "total_input"
    /\ total_messages' = ExtractTotal(data_total)
    /\ pc' = "progress_input"
    /\ UNCHANGED <<worldVars, table, progVars, rows, data_total, data_line_chart,
                   data_sentiment_chart, data_sentiment_line_chart, fig_shapes,
                   progress_data>>

ProgressStep ==
    /\ pc = "progress_input"
    /\ progress_data' = ProgressData(total_messages)
    /\ pc' = "progress_done"
    /\ UNCHANGED <<worldVars, table, progVars, rows, data_total, total_messages,
                   data_line_chart, data_sentiment_chart,
                   data_sentiment_line_chart, fig_shapes>>

NextProgress == TotalStep \/ ProgressStep

SpecProgress == InitProgress /\ [][NextProgress]_vars

(***************************************************************************)
(* What the properties are stated against: today's messages read straight  *)
(* from the table, in epoch seconds.                                       *)
(***************************************************************************)
TodayMsgs == {m \in DOMAIN table : m.written_date \div 86400 = current_date}
DataBuckets == {(m.written_at \div 300) * 300 : m \in TodayMsgs}
BucketCount(b) == SumOver({m \in TodayMsgs : (m.written_at \div 300) * 300 = b}, table)
MostRecentBucket == CHOOSE b \in DataBuckets : \A c \in DataBuckets : c <= b
SecondBucket ==
    CHOOSE b \in DataBuckets \ {MostRecentBucket} :
        \A c \in DataBuckets \ {MostRecentBucket} : c <= b
Flagged == {i \in DOMAIN data_line_chart : data_line_chart[i].latest_bin # <<>>}
TodayLabels == {m.sentiment : m \in {x \in TodayMsgs : x.sentiment # <<>>}}
LabelCount(l) == SumOver({m \in TodayMsgs : m.sentiment = l}, table)
AmongTopFive(l) ==
    /\ l # <<>>
    /\ l \in TodayLabels
    /\ Cardinality({k \in TodayLabels : LabelCount(k) > LabelCount(l)}) < 5
IsPrefix(s, t) == Len(s) <= Len(t) /\ \A i \in DOMAIN s : s[i] = t[i]
EnvMissing == env = <<>> \/ env = <<"">>

(***************************************************************************)
(* C1.  Claim: when a warehouse query fails (connection or query error)    *)
(* during a refresh cycle, the loop survives: the process does not         *)
(* terminate and the next cycle is started after the sleep.  Stated as:    *)
(* no state is reached in which the script has ended on a connection or    *)
(* query error.                                                            *)
(***************************************************************************)
C1_LoopSurvivesQueryFailure ==
    err \in {"ConnectionError", "QueryError"} => pc # "terminated"

(***************************************************************************)
(* C2.  Claim: the refresh loop strictly alternates REFRESHING and         *)
(* SLEEPING and has no terminal state: a step out of REFRESHING leads to   *)
(* REFRESHING or SLEEPING, a step out of SLEEPING to SLEEPING or           *)
(* REFRESHING, never anywhere else.                                        *)
(***************************************************************************)
C2_RefreshingAlternatesWithSleeping ==
    [][/\ Refreshing => (Refreshing' \/ Sleeping')
       /\ Sleeping => (Sleeping' \/ Refreshing')]_vars

(***************************************************************************)
(* C3 as claimed: once the time series is drawn, exactly one bucket is     *)
(* flagged "latest", whatever the data, and it is the 5-minute bucket      *)
(* immediately before the most recent bucket.                              *)
(***************************************************************************)
C3_ExactlyOneLatestJustBeforeMostRecent ==
    pc = "ts_done" =>
        /\ Cardinality(Flagged) = 1
        /\ DataBuckets # {}
        /\ \A i \in Flagged :
              data_line_chart[i].time_bin = MostRecentBucket - 300

(***************************************************************************)
(* C3 as amended: at most one bucket is flagged "latest"; one is flagged   *)
(* exactly when at least two buckets have data today; the flagged bucket   *)
(* is the second-most-recent bucket that has data (so never the most       *)
(* recent one), it carries that bucket's count, and the line figure gets   *)
(* one marker, at that bucket's label, and none when nothing is flagged.   *)
(***************************************************************************)
C3_LatestIsSecondMostRecentDataBucket ==
    pc = "ts_done" =>
        /\ Cardinality(Flagged) <= 1
        /\ Cardinality(Flagged) = 1 <=> Cardinality(DataBuckets) >= 2
        /\ \A i \in Flagged :
              /\ data_line_chart[i].time_bin = SecondBucket
              /\ data_line_chart[i].time_bin < MostRecentBucket
              /\ data_line_chart[i].latest_bin = <<BucketCount(SecondBucket)>>
              /\ fig_shapes = <<data_line_chart[i].time_bin_formatted>>
        /\ Flagged = {} => fig_shapes = <<>>

(* C3, witness: a bucket is flagged although the bucket just before the    *)
(* most recent one holds no data.                                          *)
C3_FlaggedAcrossGap ==
    /\ pc = "ts_done"
    /\ Cardinality(Flagged) = 1
    /\ (MostRecentBucket - 300) \notin DataBuckets
    /\ \A i \in Flagged : data_line_chart[i].time_bin < MostRecentBucket - 300

(***************************************************************************)
(* C4.  The shaped time series has exactly 288 rows, row i being the       *)
(* bucket (i-1)*5 minutes after midnight of the current day, so the rows   *)
(* ascend from 00:00 to 23:55 without gap or duplicate, with labels that   *)
(* differ; shaping keeps the number and the content of the query's rows.   *)
(***************************************************************************)
C4_TimeSeriesCoversTheDay ==
    pc \in {"ts_render", "ts_done"} =>
        /\ Len(data_line_chart) = 288
        /\ Len(data_line_chart) = Len(rows)
        /\ \A i \in DOMAIN data_line_chart :
              /\ data_line_chart[i].time_bin = current_date * 86400 + (i - 1) * 300
              /\ data_line_chart[i].time_bin_formatted =
                    [date |-> current_date,
                     hh   |-> ((i - 1) * 5) \div 60,
                     mi   |-> ((i - 1) * 5) % 60]
              /\ data_line_chart[i].cnt = rows[i].cnt
              /\ data_line_chart[i].latest_bin = rows[i].latest_bin
        /\ Cardinality({data_line_chart[i].time_bin_formatted :
                            i \in DOMAIN data_line_chart}) = 288

(* C4, witness: a full day of rows, some with data and some without.       *)
C4_FullDayWithAndWithoutData ==
    /\ pc = "ts_done"
    /\ Len(data_line_chart) = 288
    /\ \E i \in DOMAIN data_line_chart : data_line_chart[i].cnt # <<>>
    /\ \E i \in DOMAIN data_line_chart : data_line_chart[i].cnt = <<>>
    /\ data_line_chart[288].time_bin_formatted =
          [date |-> current_date, hh |-> 23, mi |-> 55]

(***************************************************************************)
(* C5.  Progress against the goal of 1,100,000: remaining is never         *)
(* negative; for a total up to the goal it is goal - total and the two     *)
(* percentages add up to 100; for a total above the goal it is 0 and the   *)
(* achieved percentage alone exceeds 100; an empty result gives total 0,   *)
(* achieved 0% and remaining 100%.                                         *)
(***************************************************************************)
C5_ProgressRemainingClamped ==
    pc = "progress_done" =>
        LET T == IF data_total = <<>> THEN 0 ELSE data_total[1].total_messages
            a == progress_data[1]
            r == progress_data[2]
        IN  /\ total_messages = T
            /\ a.Count = T
            /\ r.Count >= 0
            /\ a.Percentage.den = 1100000 /\ r.Percentage.den = 1100000
            /\ a.Percentage.num = 100 * a.Count
            /\ r.Percentage.num = 100 * r.Count
            /\ T <= 1100000 =>
                  /\ r.Count = 1100000 - T
                  /\ a.Percentage.num + r.Percentage.num = 100 * 1100000
            /\ T > 1100000 =>
                  /\ r.Count = 0
                  /\ a.Percentage.num > 100 * 1100000
            /\ data_total = <<>> =>
                  /\ a.Percentage.num = 0
                  /\ r.Percentage.num = 100 * 1100000

(* C5, witness: a total above the goal, remaining clamped to 0.            *)
C5_TotalAboveGoal ==
    /\ pc = "progress_done"
    /\ data_total # <<>>
    /\ total_messages > 1100000
    /\ progress_data[2].Count = 0

(***************************************************************************)
(* C6 as claimed: with the warehouse id absent or empty, no presentation-  *)
(* surface call, query or refresh cycle ever happens.                      *)
(***************************************************************************)
C6_NoSurfaceCallWhenEnvMissing ==
    EnvMissing =>
        /\ calls = <<>>
        /\ keys = <<>>
        /\ events = <<>>
        /\ conn = 0

(***************************************************************************)
(* C6 as amended: with the warehouse id absent or empty the script ends    *)
(* with an AssertionError right after st.set_page_config, the only         *)
(* presentation-surface call it makes: no markup, layout or chart is       *)
(* rendered, no connection is opened, no query is run and no refresh       *)
(* cycle starts.                                                           *)
(***************************************************************************)
C6_FatalBeforeAnyRenderOrQuery ==
    EnvMissing =>
        /\ pc \in {"set_page_config", "assert", "terminated"}
        /\ pc = "terminated" => err = "AssertionError"
        /\ IsPrefix(calls, <<"set_page_config">>)
        /\ keys = <<>>
        /\ events = <<>>
        /\ conn = 0 /\ cursors = 0 /\ counter = 0
        /\ NoData

(* C6, witness: the script ended on the assertion with an empty id.        *)
C6_EndedOnEmptyId ==
    /\ env = <<"">>
    /\ pc = "terminated"
    /\ err = "AssertionError"
    /\ calls = <<"set_page_config">>

(***************************************************************************)
(* C7.  At most one connection and one cursor are open, a cursor only      *)
(* within a connection, and none is open outside a call of the adapter:    *)
(* not when the next query starts, not while rendering, incrementing or    *)
(* sleeping, and not after the script ended on an error.                   *)
(***************************************************************************)
C7_ConnectionsScoped ==
    /\ conn \in {0, 1}
    /\ cursors \in {0, 1}
    /\ cursors <= conn
    /\ pc \notin {"execute", "fetch"} => conn = 0 /\ cursors = 0
    /\ pc \in {"execute", "fetch"} => conn = 1
    /\ pc = "fetch" => cursors = 1

(* C7, witness: a query raised after an earlier one had succeeded, and     *)
(* nothing is left open.                                                   *)
C7_ReleasedAfterQueryError ==
    /\ pc = "terminated"
    /\ err = "QueryError"
    /\ q >= 2
    /\ conn = 0
    /\ cursors = 0

C9_CycleStepsInOrder ==
    LET done  == IF pc = "sleep" /\ events # <<>> THEN counter - 1 ELSE counter
        canon == <<<<"query", 1>>, <<"query", 2>>, <<"query", 3>>, <<"query", 4>>,
                   <<"draw", 1>>, <<"draw", 2>>, <<"draw", 3>>, <<"draw", 4>>,
                   <<"incr", done>>>>
        names == <<"line_chart", "bar_chart", "stacked_bar">>
    IN  /\ IsPrefix(events, canon)
        /\ pc \in {"connect", "execute", "fetch"} =>
              Len(events) = q - 1 /\ Len(keys) = 3 * counter
        /\ pc = "render" => Len(events) = 4 + (panel - 1)
        /\ pc = "increment" => Len(events) = 8 /\ Len(keys) = 3 * (counter + 1)
        /\ pc = "sleep" => Len(events) = 9 /\ Len(keys) = 3 * counter
        /\ \A i \in DOMAIN keys :
              keys[i] = <<names[((i - 1) % 3) + 1], (i - 1) \div 3>>
        /\ \A i, j \in DOMAIN keys : i < j => keys[i] # keys[j]

(* C9, witness: the second cycle is complete and the loop sleeps.          *)
C9_TwoCyclesDone ==
    /\ pc = "sleep"
    /\ counter = 2
    /\ Len(keys) = 6
    /\ keys[4] = <<"line_chart", 1>>

(***************************************************************************)
(* C10.  In the shaped time series a bucket has a count exactly when it    *)
(* has data today and is not the most recent bucket with data, and the     *)
(* count is then that bucket's number of messages; with a single bucket    *)
(* of data every one of the 288 counts is null.                            *)
(***************************************************************************)
C10_MostRecentDataBucketIsNull ==
    pc = "ts_done" =>
        /\ \A i \in DOMAIN data_line_chart :
              LET b == data_line_chart[i].time_bin
              IN  /\ data_line_chart[i].cnt # <<>> <=>
                        (b \in DataBuckets /\ b # MostRecentBucket)
                  /\ data_line_chart[i].cnt # <<>> =>
                        data_line_chart[i].cnt = <<BucketCount(b)>>
        /\ Cardinality(DataBuckets) = 1 =>
              \A i \in DOMAIN data_line_chart : data_line_chart[i].cnt = <<>>

(* C10, witness: the most recent data bucket is on the chart with a null   *)
(* count while an earlier bucket shows its count.                          *)
C10_RecentNullEarlierShown ==
    /\ pc = "ts_done"
    /\ Cardinality(DataBuckets) >= 2
    /\ \E i \in DOMAIN data_line_chart :
          /\ data_line_chart[i].time_bin = MostRecentBucket
          /\ data_line_chart[i].cnt = <<>>
    /\ \E i \in DOMAIN data_line_chart : data_line_chart[i].cnt # <<>>

=============================================================================
